---- MODULE Spec2Model ----
(***************************************************************************)
(* The resumable SSE task broker of backend/utils/sse/sse.go: one Task     *)
(* Record of an SSEManager, the goroutines working on it (task runner,     *)
(* broadcast loop, one forwarder per consumer session, the cleanup         *)
(* ticker) and its callers (ExecuteWithSSE, UpdateProgress, CompleteTask). *)
(* Every critical section of task.mu / m.mu is one atomic step; whatever   *)
(* the code does between two critical sections is a step of its own.       *)
(***************************************************************************)
EXTENDS Integers, Sequences, FiniteSets, TLC

\* ---------------------------------------------------------------- bounds
\* The capacities of DataChannel, subChan and outputChan: make(chan
\* interface{}, 100) at sse.go:216, 226 and 231, scaled down.
DataCap == 2
SubCap == 1
OutCap == 1
\* The work function calls updateProgress with payloads 1, 2, .. MaxPayload.
MaxPayload == 2
\* goroutines contending for m.mu and task.mu in one run
MaxLockThreads == 4

\* Session 1 is the ExecuteWithSSE call with an empty resumeKey that creates
\* the record; session 2 is a later call carrying the record's resume key.
Creator == 1
Sessions == {1, 2}
Resumers == Sessions \ {Creator}
\* subscriberID values; the creator uses "a".
IDs == {"a", "b"}
Payloads == 1..MaxPayload
\* The two callers of CompleteTask: the task runner and an outside caller.
Callers == {"runner", "ext"}

VARIABLES
    \* --- SSEManager.tasks and the TaskInfo record
    inReg,            \* the record is in m.tasks
    status,           \* TaskInfo.Status ("none" before the record exists)
    progress,         \* TaskInfo.Progress (0: nil)
    cached,           \* TaskInfo.CachedData
    dc,               \* the buffer of the channel made for TaskInfo.DataChannel
    dcClosed,         \* that channel is closed
    dcNil,            \* the field TaskInfo.DataChannel is nil
    subs,             \* TaskInfo.Subscribers: ID -> session whose subChan it holds, 0: absent
    listenerStarted,  \* TaskInfo.listenerStarted
    expired,          \* TaskInfo.ExpiresAt.Before(time.Now())
    \* --- per ExecuteWithSSE call (session)
    epc,              \* position of the call
    res,              \* what the call returned
    sid,              \* its subscriberID
    ctxDone,          \* its ctx is cancelled
    subBuf, subClosed,   \* its subChan
    outBuf, outClosed,   \* its outputChan
    delivered,        \* what the caller has read from outputChan so far
    \* --- forwarder goroutine of the session
    fpc, fcache, fhold,
    \* --- broadcast loop (data listener goroutine)
    lpc, ldata, lsnap,
    \* --- task runner goroutine and the UpdateProgress call in it
    rpc, nextP, rres, asyncDone,
    \* --- CompleteTask calls
    cpc, cst, csnap,
    \* --- observations kept for the properties
    runnerStarts,     \* how often asyncFunc was started for the record
    newTasks,         \* records created by calls that carried a resume key
    obs,              \* status/expired as read by the call's check (sse.go:188-191)
    expAtCall,        \* the record was expired when the call started
    backlog,          \* CachedData as found by the call when it subscribed
    upResult,         \* per payload, what its UpdateProgress call returned
    everFull,         \* some channel buffer has reached its capacity
    dblClose,         \* closes of a closed channel so far: "none", "recovered", "dblClose"
    closedBy,         \* per CompleteTask caller / "sweep": it went through its closes
    info,             \* what the last GetTaskInfo call returned
    \* --- m.mu and task.mu, for the goroutines of LockThreads
    lkpc,             \* per goroutine, the index of its next lock operation
    lkwait            \* the goroutines blocked inside a call of Lock()

recVars  == <<inReg, status, progress, cached, dc, dcClosed, dcNil, subs, listenerStarted, expired>>
sessVars == <<epc, res, sid, ctxDone, subBuf, subClosed, outBuf, outClosed, delivered>>
fwdVars  == <<fpc, fcache, fhold>>
loopVars == <<lpc, ldata, lsnap>>
runVars  == <<rpc, nextP, rres, asyncDone>>
ctVars   == <<cpc, cst, csnap>>
obsVars  == <<runnerStarts, newTasks, obs, expAtCall, backlog, upResult, everFull, dblClose, closedBy, info>>
obsRest  == <<runnerStarts, newTasks, obs, expAtCall, backlog, dblClose, closedBy, info>>
lockVars == <<lkpc, lkwait>>
vars == <<recVars, sessVars, fwdVars, loopVars, runVars, ctVars, obsVars, lockVars>>

\* ---------------------------------------------------------------- helpers
Min(a, b) == IF a < b THEN a ELSE b
Take(s, n) == SubSeq(s, 1, Min(n, Len(s)))
IsPrefix(p, s) == Len(p) <= Len(s) /\ SubSeq(s, 1, Len(p)) = p
Terminal == {"completed", "failed", "cancelled"}
\* the sessions whose subChan is a value of task.Subscribers
Registered == {subs[i] : i \in IDs} \ {0}
NoSubs == [i \in IDs |-> 0]
\* select { case subChan <- v: ... default: } on an open subChan
TrySendNever(buf, v) == buf
TrySend(buf, v) == IF Len(buf) >= SubCap THEN buf ELSE Append(buf, v)

\* The deferred recover() around every close() of DataChannel and of a
\* subscriber channel (sse.go:109-113, 121-125, 332-336, 443-447, 467-471).
NoRecoverOnClose == FALSE
RecoverOnClose == TRUE
\* close(ch) where wasClosed tells whether ch is closed already: closing a
\* closed channel panics, and the panic is recovered on the spot or escapes
\* the closing function.
CloseOutcome(wasClosed) ==
    IF ~wasClosed THEN "none"
    ELSE IF RecoverOnClose THEN "recovered" ELSE "dblClose"
\* the worst close outcome so far
Worse(a, b) ==
    IF "dblClose" \in {a, b} THEN "dblClose"
    ELSE IF "recovered" \in {a, b} THEN "recovered" ELSE "none"

\* some channel buffer is at capacity
AnyFull ==
    \/ Len(dc) >= DataCap
    \/ \E s \in Sessions : Len(subBuf[s]) >= SubCap \/ Len(outBuf[s]) >= OutCap

\* ------------------------------------------------ ExecuteWithSSE (sse.go:160)
\* sse.go:193-198: the verdict on a record found by its resume key.
ResumeVerdictNoStatus(st, exp) == IF exp THEN "TaskExpired" ELSE "ok"
ResumeVerdict(st, exp) ==
    IF exp THEN "TaskExpired"
    ELSE IF st # "running" THEN "TaskNotRunning"
    ELSE "ok"

\* sse.go:203-204 and 249: the runner and the listener are started only by
\* the call that found no record (isNewTask).
StartsWorkAlways(found) == TRUE
StartsWork(found) == ~found

\* resumeKey = "": the record is created and put into m.tasks (203-223), the
\* caller's subChan is subscribed (226-246, CachedData is empty), the runner
\* and the listener are started (249-318), the forwarder is started and
\* outputChan returned (321-374).  Nobody else knows the record before the
\* call returns its taskID.
ExecCreate(s) ==
    /\ s = Creator /\ epc[s] = "idle" /\ status = "none"
    /\ StartsWork(FALSE)
    /\ inReg' = TRUE /\ status' = "running"
    /\ subs' = [subs EXCEPT ![sid[s]] = s]
    /\ listenerStarted' = TRUE
    /\ lpc' = "recv"
    /\ rpc' = "work" /\ runnerStarts' = runnerStarts + 1
    /\ fpc' = [fpc EXCEPT ![s] = "copy"]
    /\ epc' = [epc EXCEPT ![s] = "done"]
    /\ res' = [res EXCEPT ![s] = "ok"]
    /\ UNCHANGED <<progress, cached, dc, dcClosed, dcNil, expired>>
    /\ UNCHANGED <<sid, ctxDone, subBuf, subClosed, outBuf, outClosed, delivered>>
    /\ UNCHANGED <<fcache, fhold, ldata, lsnap, nextP, rres, asyncDone, ctVars>>
    /\ UNCHANGED <<newTasks, obs, expAtCall, backlog, upResult, everFull, dblClose, closedBy>>
    /\ UNCHANGED info
    /\ UNCHANGED lockVars

\* resumeKey # "": the lookup in m.tasks under m.mu.RLock (172-185).  The key
\* is the record's, read off GetTaskInfo after the creating call returned.
\* When no record carries the key, task stays nil and the call goes on to
\* create a record of its own (203-223) and to start asyncFunc for it; that
\* second record lives apart from this one and is only counted.
ExecLookup(s, id) ==
    /\ s \in Resumers /\ epc[s] = "idle" /\ epc[Creator] = "done"
    /\ sid' = [sid EXCEPT ![s] = id]
    /\ expAtCall' = [expAtCall EXCEPT ![s] = expired]
    /\ IF inReg
         THEN /\ epc' = [epc EXCEPT ![s] = "check"]
              /\ UNCHANGED <<res, newTasks>>
         ELSE /\ epc' = [epc EXCEPT ![s] = "done"]
              /\ res' = [res EXCEPT ![s] = "ok_new"]
              /\ newTasks' = IF StartsWork(FALSE) THEN newTasks + 1 ELSE newTasks
    /\ UNCHANGED <<recVars, ctxDone, subBuf, subClosed, outBuf, outClosed, delivered>>
    /\ UNCHANGED <<fwdVars, loopVars, runVars, ctVars>>
    /\ UNCHANGED <<runnerStarts, obs, backlog, upResult, everFull, dblClose, closedBy>>
    /\ UNCHANGED info
    /\ UNCHANGED lockVars

\* 187-199: status and expiry read under task.mu.RLock, then the verdict.
ExecCheck(s) ==
    /\ epc[s] = "check"
    /\ obs' = [obs EXCEPT ![s] = [status |-> status, expired |-> expired]]
    /\ LET v == ResumeVerdict(status, expired) IN
         IF v = "ok"
           THEN epc' = [epc EXCEPT ![s] = "register"] /\ UNCHANGED res
           ELSE epc' = [epc EXCEPT ![s] = "done"] /\ res' = [res EXCEPT ![s] = v]
    /\ UNCHANGED <<recVars, sid, ctxDone, subBuf, subClosed, outBuf, outClosed, delivered>>
    /\ UNCHANGED <<fwdVars, loopVars, runVars, ctVars>>
    /\ UNCHANGED <<runnerStarts, newTasks, expAtCall, backlog, upResult, everFull, dblClose, closedBy>>
    /\ UNCHANGED info
    /\ UNCHANGED lockVars

\* 226-246 under task.mu.Lock, all iterations of the flush completed: the
\* subChan is subscribed, each cached payload is offered to it (select with
\* default: dropped once subChan is full) and CachedData is emptied; then
\* 249 (skipped unless the call is to start the work) and 321-374: the
\* forwarder is started and outputChan returned.  With ctx cancelled an
\* iteration that finds subChan full takes the ctx.Done() case, so the flush
\* completes only if it never meets a full subChan.
ExecRegister(s) ==
    /\ epc[s] = "register"
    /\ ~(ctxDone[s] /\ Len(cached) > SubCap)
    /\ subs' = [subs EXCEPT ![sid[s]] = s]
    /\ backlog' = [backlog EXCEPT ![s] = cached]
    /\ subBuf' = [subBuf EXCEPT ![s] = Take(cached, SubCap)]
    /\ cached' = <<>>
    /\ runnerStarts' = IF StartsWork(TRUE) THEN runnerStarts + 1 ELSE runnerStarts
    /\ fpc' = [fpc EXCEPT ![s] = "copy"]
    /\ epc' = [epc EXCEPT ![s] = "done"]
    /\ res' = [res EXCEPT ![s] = "ok"]
    /\ UNCHANGED <<inReg, status, progress, dc, dcClosed, dcNil, listenerStarted, expired>>
    /\ UNCHANGED <<sid, ctxDone, subClosed, outBuf, outClosed, delivered>>
    /\ UNCHANGED <<fcache, fhold, loopVars, runVars, ctVars>>
    /\ UNCHANGED <<newTasks, obs, expAtCall, upResult, dblClose, closedBy>>
    /\ everFull' = (everFull \/ AnyFull')
    /\ UNCHANGED info
    /\ UNCHANGED lockVars

\* 234-241 with ctx cancelled: iteration i of the flush takes the
\* ctx.Done() case (it may whenever ctx is done; it must when subChan is
\* full): task.mu is released and ctx.Err() returned, with the subChan still
\* subscribed, the first i-1 payloads in it and CachedData as it was.
ExecRegisterCtxErr(s, i) ==
    /\ epc[s] = "register" /\ ctxDone[s]
    /\ i \in 1..Len(cached) /\ i <= SubCap + 1
    /\ subs' = [subs EXCEPT ![sid[s]] = s]
    /\ backlog' = [backlog EXCEPT ![s] = cached]
    /\ subBuf' = [subBuf EXCEPT ![s] = Take(cached, i - 1)]
    /\ epc' = [epc EXCEPT ![s] = "done"]
    /\ res' = [res EXCEPT ![s] = "ctx_err"]
    /\ UNCHANGED <<inReg, status, progress, cached, dc, dcClosed, dcNil, listenerStarted, expired>>
    /\ UNCHANGED <<sid, ctxDone, subClosed, outBuf, outClosed, delivered>>
    /\ UNCHANGED <<fwdVars, loopVars, runVars, ctVars>>
    /\ UNCHANGED <<runnerStarts, newTasks, obs, expAtCall, upResult, dblClose, closedBy>>
    /\ everFull' = (everFull \/ AnyFull')
    /\ UNCHANGED info
    /\ UNCHANGED lockVars

\* The caller cancels the ctx it passed to ExecuteWithSSE.
CancelCtx(s) ==
    /\ epc[s] # "idle" /\ ~ctxDone[s]
    /\ ctxDone' = [ctxDone EXCEPT ![s] = TRUE]
    /\ UNCHANGED <<recVars, epc, res, sid, subBuf, subClosed, outBuf, outClosed, delivered>>
    /\ UNCHANGED <<fwdVars, loopVars, runVars, ctVars, obsVars>>
    /\ UNCHANGED lockVars

\* The caller reads one payload from the outputChan it was given.
ConsumerRead(s) ==
    /\ res[s] = "ok" /\ outBuf[s] # <<>>
    /\ delivered' = [delivered EXCEPT ![s] = Append(@, Head(outBuf[s]))]
    /\ outBuf' = [outBuf EXCEPT ![s] = Tail(@)]
    /\ UNCHANGED <<recVars, epc, res, sid, ctxDone, subBuf, subClosed, outClosed>>
    /\ UNCHANGED <<fwdVars, loopVars, runVars, ctVars, obsVars>>
    /\ UNCHANGED lockVars

\* ------------------------------------------------ forwarder (sse.go:321-372)
\* 343-346: the forwarder copies CachedData under task.mu.RLock.
FwdCopy(s) ==
    /\ fpc[s] = "copy"
    /\ fcache' = [fcache EXCEPT ![s] = cached]
    /\ fpc' = [fpc EXCEPT ![s] = IF cached = <<>> THEN "relay" ELSE "replay"]
    /\ UNCHANGED <<recVars, sessVars, fhold, loopVars, runVars, ctVars, obsVars>>
    /\ UNCHANGED lockVars

\* 348-354: the next payload of the copy goes to outputChan (blocking send).
FwdReplay(s) ==
    /\ fpc[s] = "replay" /\ Len(outBuf[s]) < OutCap
    /\ outBuf' = [outBuf EXCEPT ![s] = Append(@, Head(fcache[s]))]
    /\ fcache' = [fcache EXCEPT ![s] = Tail(@)]
    /\ fpc' = [fpc EXCEPT ![s] = IF Len(fcache[s]) = 1 THEN "relay" ELSE "replay"]
    /\ UNCHANGED <<recVars, epc, res, sid, ctxDone, subBuf, subClosed, outClosed, delivered>>
    /\ UNCHANGED <<fhold, loopVars, runVars, ctVars>>
    /\ UNCHANGED <<runnerStarts, newTasks, obs, expAtCall, backlog, upResult, dblClose, closedBy>>
    /\ everFull' = (everFull \/ AnyFull')
    /\ UNCHANGED info
    /\ UNCHANGED lockVars

\* 359-364: a payload is received from subChan and sent to outputChan, which
\* has room; only this goroutine sends on outputChan, so the send follows the
\* receive at once.
FwdRelay(s) ==
    /\ fpc[s] = "relay" /\ subBuf[s] # <<>> /\ Len(outBuf[s]) < OutCap
    /\ outBuf' = [outBuf EXCEPT ![s] = Append(@, Head(subBuf[s]))]
    /\ subBuf' = [subBuf EXCEPT ![s] = Tail(@)]
    /\ UNCHANGED <<recVars, epc, res, sid, ctxDone, subClosed, outClosed, delivered>>
    /\ UNCHANGED <<fwdVars, loopVars, runVars, ctVars>>
    /\ UNCHANGED <<runnerStarts, newTasks, obs, expAtCall, backlog, upResult, dblClose, closedBy>>
    /\ everFull' = (everFull \/ AnyFull')
    /\ UNCHANGED info
    /\ UNCHANGED lockVars

\* 359: a payload is received from subChan while outputChan is full; the
\* forwarder holds it, blocked in the select of 363-367.
FwdRecv(s) ==
    /\ fpc[s] = "relay" /\ subBuf[s] # <<>> /\ Len(outBuf[s]) >= OutCap
    /\ fhold' = [fhold EXCEPT ![s] = Head(subBuf[s])]
    /\ subBuf' = [subBuf EXCEPT ![s] = Tail(@)]
    /\ fpc' = [fpc EXCEPT ![s] = "hold"]
    /\ UNCHANGED <<recVars, epc, res, sid, ctxDone, subClosed, outBuf, outClosed, delivered>>
    /\ UNCHANGED <<fcache, loopVars, runVars, ctVars, obsVars>>
    /\ UNCHANGED lockVars

\* 363-364: the held payload goes to outputChan once it has room.
FwdSend(s) ==
    /\ fpc[s] = "hold" /\ Len(outBuf[s]) < OutCap
    /\ outBuf' = [outBuf EXCEPT ![s] = Append(@, fhold[s])]
    /\ fhold' = [fhold EXCEPT ![s] = 0]
    /\ fpc' = [fpc EXCEPT ![s] = "relay"]
    /\ UNCHANGED <<recVars, epc, res, sid, ctxDone, subBuf, subClosed, outClosed, delivered>>
    /\ UNCHANGED <<fcache, loopVars, runVars, ctVars>>
    /\ UNCHANGED <<runnerStarts, newTasks, obs, expAtCall, backlog, upResult, dblClose, closedBy>>
    /\ everFull' = (everFull \/ AnyFull')
    /\ UNCHANGED info
    /\ UNCHANGED lockVars

\* The forwarder returns: ctx.Done() was taken (351, 365, 368) or subChan was
\* found closed and empty (360-361).  Its deferred functions run: under
\* task.mu.Lock, if Subscribers still has the subscriberID, the entry is
\* deleted and subChan closed inside a recover (323-340); then outputChan is
\* closed (322).
FwdExit(s) ==
    /\ fpc[s] \in {"replay", "relay", "hold"}
    /\ ctxDone[s] \/ (fpc[s] = "relay" /\ subBuf[s] = <<>> /\ subClosed[s])
    /\ IF subs[sid[s]] # 0
         THEN /\ subs' = [subs EXCEPT ![sid[s]] = 0]
              /\ subClosed' = [subClosed EXCEPT ![s] = TRUE]
              /\ dblClose' = Worse(dblClose, CloseOutcome(subClosed[s]))
         ELSE UNCHANGED <<subs, subClosed, dblClose>>
    /\ outClosed' = [outClosed EXCEPT ![s] = TRUE]
    /\ fpc' = [fpc EXCEPT ![s] = "done"]
    /\ fhold' = [fhold EXCEPT ![s] = 0]
    /\ fcache' = [fcache EXCEPT ![s] = <<>>]
    /\ UNCHANGED <<inReg, status, progress, cached, dc, dcClosed, dcNil, listenerStarted, expired>>
    /\ UNCHANGED <<epc, res, sid, ctxDone, subBuf, outBuf, delivered>>
    /\ UNCHANGED <<loopVars, runVars, ctVars>>
    /\ UNCHANGED <<runnerStarts, newTasks, obs, expAtCall, backlog, upResult, everFull, closedBy>>
    /\ UNCHANGED info
    /\ UNCHANGED lockVars

\* ------------------------------------------------ broadcast loop (sse.go:279-314)
\* 282: a payload is received from task.DataChannel.  The loop reads the
\* field without task.mu while CompleteTask sets it to nil (450): it may
\* still see the channel, closed by then, and drain what is buffered in it;
\* seeing nil it blocks, which is this step not being taken.
LoopRecv ==
    /\ lpc = "recv" /\ dc # <<>>
    /\ ldata' = Head(dc) /\ dc' = Tail(dc)
    /\ lpc' = "snap"
    /\ UNCHANGED <<inReg, status, progress, cached, dcClosed, dcNil, subs, listenerStarted, expired>>
    /\ UNCHANGED <<sessVars, fwdVars, lsnap, runVars, ctVars, obsVars>>
    /\ UNCHANGED lockVars

\* 283-285: the channel is closed and drained; 310-311: asyncCtx is done.
LoopReturn ==
    /\ lpc = "recv"
    /\ (dc = <<>> /\ dcClosed) \/ asyncDone
    /\ lpc' = "done"
    /\ UNCHANGED <<recVars, sessVars, fwdVars, ldata, lsnap, runVars, ctVars, obsVars>>
    /\ UNCHANGED lockVars

\* 287-293: the subscribers are copied under task.mu.RLock.
LoopSnap ==
    /\ lpc = "snap"
    /\ lsnap' = Registered
    /\ lpc' = IF Registered # {} THEN "send" ELSE "append"
    /\ UNCHANGED <<recVars, sessVars, fwdVars, ldata, runVars, ctVars, obsVars>>
    /\ UNCHANGED lockVars

\* 295-303, no copied subChan closed: each gets the payload unless it is full.
LoopSend ==
    /\ lpc = "send"
    /\ \A s \in lsnap : ~subClosed[s]
    /\ subBuf' = [s \in Sessions |->
                    IF s \in lsnap THEN TrySend(subBuf[s], ldata) ELSE subBuf[s]]
    /\ lpc' = "recv" /\ ldata' = 0 /\ lsnap' = {}
    /\ UNCHANGED <<recVars, epc, res, sid, ctxDone, subClosed, outBuf, outClosed, delivered>>
    /\ UNCHANGED <<fwdVars, runVars, ctVars>>
    /\ UNCHANGED <<runnerStarts, newTasks, obs, expAtCall, backlog, upResult, dblClose, closedBy>>
    /\ everFull' = (everFull \/ AnyFull')
    /\ UNCHANGED info
    /\ UNCHANGED lockVars

\* 299 on a subChan closed since the copy: "send on closed channel" panics,
\* safego.Recovery ends the goroutine.  The map is ranged in random order, so
\* any set D of the open subscribers got the payload before.
LoopSendPanic(D) ==
    /\ lpc = "send"
    /\ \E s \in lsnap : subClosed[s]
    /\ D \subseteq {s \in lsnap : ~subClosed[s]}
    /\ subBuf' = [s \in Sessions |->
                    IF s \in D THEN TrySend(subBuf[s], ldata) ELSE subBuf[s]]
    /\ lpc' = "panicked" /\ ldata' = 0 /\ lsnap' = {}
    /\ UNCHANGED <<recVars, epc, res, sid, ctxDone, subClosed, outBuf, outClosed, delivered>>
    /\ UNCHANGED <<fwdVars, runVars, ctVars>>
    /\ UNCHANGED <<runnerStarts, newTasks, obs, expAtCall, backlog, upResult, dblClose, closedBy>>
    /\ everFull' = (everFull \/ AnyFull')
    /\ UNCHANGED info
    /\ UNCHANGED lockVars

\* 304-308: no subscriber was copied, the payload is appended to CachedData
\* under task.mu.Lock.
LoopAppend ==
    /\ lpc = "append"
    /\ cached' = Append(cached, ldata)
    /\ lpc' = "recv" /\ ldata' = 0
    /\ UNCHANGED <<inReg, status, progress, dc, dcClosed, dcNil, subs, listenerStarted, expired>>
    /\ UNCHANGED <<sessVars, fwdVars, lsnap, runVars, ctVars, obsVars>>
    /\ UNCHANGED lockVars

\* ------------------------------------------------ UpdateProgress (sse.go:385-418)
\* called by the work function through the updateProgress closure, which
\* passes the ctx of the creating ExecuteWithSSE call (257-259).
\* The call for payload nextP returns r to the work function.
UpReturns(r) ==
    /\ upResult' = [upResult EXCEPT ![nextP] = r]
    /\ nextP' = nextP + 1
    /\ rpc' = "work"

\* 386-392: the lookup in m.tasks.
UpLookup ==
    /\ rpc = "work" /\ nextP <= MaxPayload
    /\ IF inReg
         THEN rpc' = "up_check" /\ UNCHANGED <<nextP, upResult>>
         ELSE UpReturns("TaskNotFound")
    /\ UNCHANGED <<recVars, sessVars, fwdVars, loopVars, rres, asyncDone, ctVars, obsRest, everFull>>
    /\ UNCHANGED lockVars

\* 394-400: the status read under task.mu.RLock.
UpCheck ==
    /\ rpc = "up_check"
    /\ IF status = "running"
         THEN rpc' = "up_set" /\ UNCHANGED <<nextP, upResult>>
         ELSE UpReturns("TaskNotRunning")
    /\ UNCHANGED <<recVars, sessVars, fwdVars, loopVars, rres, asyncDone, ctVars, obsRest, everFull>>
    /\ UNCHANGED lockVars

\* 403-406: Progress and UpdatedAt written under task.mu.Lock.
UpSet ==
    /\ rpc = "up_set"
    /\ progress' = nextP
    /\ rpc' = "up_send"
    /\ UNCHANGED <<inReg, status, cached, dc, dcClosed, dcNil, subs, listenerStarted, expired>>
    /\ UNCHANGED <<sessVars, fwdVars, loopVars, nextP, rres, asyncDone, ctVars, obsVars>>
    /\ UNCHANGED lockVars

\* 410: the send case of the select is taken, the channel is open with room.
UpSendOk ==
    /\ rpc = "up_send" /\ ~dcClosed /\ Len(dc) < DataCap
    /\ dc' = Append(dc, nextP)
    /\ UpReturns("nil")
    /\ UNCHANGED <<inReg, status, progress, cached, dcClosed, dcNil, subs, listenerStarted, expired>>
    /\ UNCHANGED <<sessVars, fwdVars, loopVars, rres, asyncDone, ctVars, obsRest>>
    /\ everFull' = (everFull \/ AnyFull')
    /\ UNCHANGED lockVars

\* 413-415: default is taken, no other case being ready: the channel is full,
\* or the field was read as nil, and ctx is not done.  nil is returned; the
\* payload is in no channel.
UpSendDrop ==
    /\ rpc = "up_send" /\ ~ctxDone[Creator]
    /\ (~dcClosed /\ Len(dc) >= DataCap) \/ dcNil
    /\ UpReturns(IF status = "running" THEN "nil_dropped" ELSE "nil_late")
    /\ UNCHANGED <<recVars, sessVars, fwdVars, loopVars, rres, asyncDone, ctVars, obsRest, everFull>>
    /\ UNCHANGED lockVars

\* 411-412: the ctx.Done() case is ready once the creating caller's ctx is
\* cancelled, and select may take it whatever the state of the channel.
UpSendCtxErr ==
    /\ rpc = "up_send" /\ ctxDone[Creator]
    /\ UpReturns("ctx_err")
    /\ UNCHANGED <<recVars, sessVars, fwdVars, loopVars, rres, asyncDone, ctVars, obsRest, everFull>>
    /\ UNCHANGED lockVars

\* 410 on a closed channel (closed by the sweep, or by CompleteTask with the
\* field still read as the channel): "send on closed channel" panics through
\* the work function; the runner's deferred cancel() runs (263) and
\* safego.Recovery ends the goroutine.
UpSendPanic ==
    /\ rpc = "up_send" /\ dcClosed
    /\ upResult' = [upResult EXCEPT ![nextP] = "panic"]
    /\ rpc' = "done" /\ rres' = "panic" /\ asyncDone' = TRUE
    /\ UNCHANGED <<recVars, sessVars, fwdVars, loopVars, nextP, ctVars, obsRest, everFull>>
    /\ UNCHANGED lockVars

\* ------------------------------------------------ task runner (sse.go:262-270)
\* 265-269: the status CompleteTask is called with after asyncFunc returned r.
FinalStatus(r) == IF r = "nil" THEN "completed" ELSE "failed"

\* 264-269: asyncFunc returns r and CompleteTask is called.
WorkReturn(r) ==
    /\ rpc = "work"
    /\ rres' = r
    /\ rpc' = "complete"
    /\ cst' = [cst EXCEPT !["runner"] = FinalStatus(r)]
    /\ cpc' = [cpc EXCEPT !["runner"] = "lookup"]
    /\ UNCHANGED <<recVars, sessVars, fwdVars, loopVars, nextP, asyncDone, csnap, obsVars>>
    /\ UNCHANGED lockVars

\* asyncFunc panics: the panic unwinds the runner's closure past the call of
\* CompleteTask, the deferred cancel() runs (263), safego.Recovery recovers
\* (safego.go:11-30).
WorkPanic ==
    /\ rpc = "work"
    /\ rres' = "panic"
    /\ rpc' = "done" /\ asyncDone' = TRUE
    /\ UNCHANGED <<recVars, sessVars, fwdVars, loopVars, nextP, ctVars, obsVars>>
    /\ UNCHANGED lockVars

\* 263: CompleteTask has returned, the deferred cancel() runs.
RunnerDone ==
    /\ rpc = "complete" /\ cpc["runner"] = "done"
    /\ rpc' = "done" /\ asyncDone' = TRUE
    /\ UNCHANGED <<recVars, sessVars, fwdVars, loopVars, nextP, rres, ctVars, obsVars>>
    /\ UNCHANGED lockVars

\* 251: asyncCtx is context.WithTimeout(context.Background(), asyncTimeout);
\* the timeout passes while the runner is alive.
AsyncTimeout ==
    /\ rpc \notin {"off", "done"} /\ ~asyncDone
    /\ asyncDone' = TRUE
    /\ UNCHANGED <<recVars, sessVars, fwdVars, loopVars, rpc, nextP, rres, ctVars, obsVars>>
    /\ UNCHANGED lockVars

\* ------------------------------------------------ CompleteTask (sse.go:426-475)
\* the status an outside caller may pass
ExtStatuses == {"failed", "cancelled"}

\* 427-433: the lookup in m.tasks; an unknown task returns.
CtLookupTo == IF inReg THEN "mark" ELSE "done"

CtLookup(c) ==
    /\ c = "runner" /\ cpc[c] = "lookup"
    /\ cpc' = [cpc EXCEPT ![c] = CtLookupTo]
    /\ UNCHANGED <<recVars, sessVars, fwdVars, loopVars, runVars, cst, csnap, obsVars>>
    /\ UNCHANGED lockVars

\* An outside caller calls CompleteTask(ctx, taskID, st) with the taskID the
\* creating call returned.
CtExtCall(st) ==
    /\ cpc["ext"] = "idle" /\ epc[Creator] = "done"
    /\ cst' = [cst EXCEPT !["ext"] = st]
    /\ cpc' = [cpc EXCEPT !["ext"] = CtLookupTo]
    /\ UNCHANGED <<recVars, sessVars, fwdVars, loopVars, runVars, csnap, obsVars>>
    /\ UNCHANGED lockVars

\* 435-452 under task.mu.Lock: Status is assigned, CachedData emptied,
\* DataChannel closed inside a recover and set to nil unless it is nil.
CtMark(c) ==
    /\ cpc[c] = "mark"
    /\ status' = cst[c]
    /\ cached' = <<>>
    /\ IF ~dcNil
         THEN /\ dcClosed' = TRUE /\ dcNil' = TRUE
              /\ dblClose' = Worse(dblClose, CloseOutcome(dcClosed))
         ELSE UNCHANGED <<dcClosed, dcNil, dblClose>>
    /\ cpc' = [cpc EXCEPT ![c] = "snap"]
    /\ UNCHANGED <<inReg, progress, dc, subs, listenerStarted, expired>>
    /\ UNCHANGED <<sessVars, fwdVars, loopVars, runVars, cst, csnap>>
    /\ UNCHANGED <<runnerStarts, newTasks, obs, expAtCall, backlog, upResult, everFull, closedBy>>
    /\ UNCHANGED info
    /\ UNCHANGED lockVars

\* 455-462 under task.mu.Lock: Subscribers is copied and replaced by an
\* empty map.
CtSnap(c) ==
    /\ cpc[c] = "snap"
    /\ csnap' = [csnap EXCEPT ![c] = Registered]
    /\ subs' = NoSubs
    /\ cpc' = [cpc EXCEPT ![c] = "close"]
    /\ UNCHANGED <<inReg, status, progress, cached, dc, dcClosed, dcNil, listenerStarted, expired>>
    /\ UNCHANGED <<sessVars, fwdVars, loopVars, runVars, cst, obsVars>>
    /\ UNCHANGED lockVars

\* 465-474, no lock held: every copied subChan is closed inside a recover.
CtClose(c) ==
    /\ cpc[c] = "close"
    /\ subClosed' = [s \in Sessions |-> subClosed[s] \/ s \in csnap[c]]
    /\ dblClose' = Worse(dblClose, CloseOutcome(\E s \in csnap[c] : subClosed[s]))
    /\ closedBy' = closedBy \cup {c}
    /\ cpc' = [cpc EXCEPT ![c] = "done"]
    /\ UNCHANGED <<recVars, epc, res, sid, ctxDone, subBuf, outBuf, outClosed, delivered>>
    /\ UNCHANGED <<fwdVars, loopVars, runVars, cst, csnap>>
    /\ UNCHANGED <<runnerStarts, newTasks, obs, expAtCall, backlog, upResult, everFull>>
    /\ UNCHANGED info
    /\ UNCHANGED lockVars

\* ------------------------------------------------ cleanupExpiredTasks (sse.go:91-137)
\* 103: what a tick of the cleanup ticker removes.
SweepRemovesAll == TRUE
SweepRemoves == expired \/ status # "running"

\* One tick, under m.mu.Lock: a record that is expired or not running is
\* deleted from m.tasks; under task.mu.Lock its DataChannel is closed unless
\* the field is nil, and every subChan in Subscribers is closed, each inside
\* a recover.  Neither Status nor Subscribers nor the field is written.
Sweep ==
    /\ inReg /\ SweepRemoves
    /\ inReg' = FALSE
    /\ IF ~dcNil
         THEN dcClosed' = TRUE
         ELSE UNCHANGED dcClosed
    /\ subClosed' = [s \in Sessions |-> subClosed[s] \/ s \in Registered]
    /\ dblClose' = Worse(dblClose, CloseOutcome((~dcNil /\ dcClosed)
                                              \/ \E s \in Registered : subClosed[s]))
    /\ closedBy' = closedBy \cup {"sweep"}
    /\ UNCHANGED <<status, progress, cached, dc, dcNil, subs, listenerStarted, expired>>
    /\ UNCHANGED <<epc, res, sid, ctxDone, subBuf, outBuf, outClosed, delivered>>
    /\ UNCHANGED <<fwdVars, loopVars, runVars, ctVars>>
    /\ UNCHANGED <<runnerStarts, newTasks, obs, expAtCall, backlog, upResult, everFull>>
    /\ UNCHANGED info
    /\ UNCHANGED lockVars

\* Time passes ExpiresAt (CreatedAt + defaultTTL, 215).
Tick ==
    /\ status # "none" /\ ~expired
    /\ expired' = TRUE
    /\ UNCHANGED <<inReg, status, progress, cached, dc, dcClosed, dcNil, subs, listenerStarted>>
    /\ UNCHANGED <<sessVars, fwdVars, loopVars, runVars, ctVars, obsVars>>
    /\ UNCHANGED lockVars

\* 478-502: what GetTaskInfo(taskID) returns: ErrTaskNotFound (481-483), or
\* a new TaskInfo with the record's Status and Progress (TaskID, ResumeKey
\* and the timestamps, which no step of the model writes, are left out); its
\* DataChannel, Subscribers and CachedData are not set (491-499).
GetTaskInfoShared ==
    IF inReg
      THEN [Status |-> status, Progress |-> progress,
            DataChannel |-> IF dcNil THEN "nil" ELSE "chan",
            Subscribers |-> subs, CachedData |-> cached]
      ELSE [Status |-> "TaskNotFound", Progress |-> 0,
            DataChannel |-> "nil", Subscribers |-> NoSubs, CachedData |-> <<>>]
GetTaskInfo ==
    IF inReg
      THEN [Status |-> status, Progress |-> progress,
            DataChannel |-> "nil", Subscribers |-> NoSubs, CachedData |-> <<>>]
      ELSE [Status |-> "TaskNotFound", Progress |-> 0,
            DataChannel |-> "nil", Subscribers |-> NoSubs, CachedData |-> <<>>]

\* A caller that knows the taskID calls GetTaskInfo: lookup under m.mu.RLock
\* and copy under task.mu.RLock, one read of the record.
GetTaskInfoCall ==
    /\ epc[Creator] = "done"
    /\ info' = GetTaskInfo
    /\ UNCHANGED <<recVars, sessVars, fwdVars, loopVars, runVars, ctVars>>
    /\ UNCHANGED <<runnerStarts, newTasks, obs, expAtCall, backlog, upResult, everFull, dblClose, closedBy>>
    /\ UNCHANGED lockVars

\* ------------------------------------------------ m.mu and task.mu
\* The lock operations of each operation and goroutine, in program order;
\* "m" is SSEManager.mu, "t" the record's TaskInfo.mu.  No critical section
\* holds a blocking operation (the flush at 234-241 sends through a select
\* with default, every close() sits inside a recover), so a goroutine inside
\* one always reaches its unlock, and what a goroutine does between two lock
\* operations does not matter here.
\* ExecuteWithSSE without a resume key: 220-222, 227-246, 274-277.
ExecCreateLocks ==
    << <<"m", "Lock">>, <<"m", "Unlock">>, <<"t", "Lock">>, <<"t", "Unlock">>,
       <<"t", "Lock">>, <<"t", "Unlock">> >>
\* ExecuteWithSSE with a resume key: 174-185 (the lookup holds m.mu.RLock
\* around t.mu.RLock), 188-191, 227-246.
ExecResumeLocks ==
    << <<"m", "RLock">>, <<"t", "RLock">>, <<"t", "RUnlock">>, <<"m", "RUnlock">>,
       <<"t", "RLock">>, <<"t", "RUnlock">>, <<"t", "Lock">>, <<"t", "Unlock">> >>
\* the forwarder: 343-346, then the deferred cleanup 325-326.
ForwarderLocks ==
    << <<"t", "RLock">>, <<"t", "RUnlock">>, <<"t", "Lock">>, <<"t", "Unlock">> >>
\* the broadcast loop: 287-293 for one payload, 306-308 for the next.
LoopLocks ==
    << <<"t", "RLock">>, <<"t", "RUnlock">>, <<"t", "RLock">>, <<"t", "RUnlock">>,
       <<"t", "Lock">>, <<"t", "Unlock">> >>
\* UpdateProgress: 386-388, 394-396, 403-406.
UpdateProgressLocks ==
    << <<"m", "RLock">>, <<"m", "RUnlock">>, <<"t", "RLock">>, <<"t", "RUnlock">>,
       <<"t", "Lock">>, <<"t", "Unlock">> >>
\* CompleteTask: 427-429, 435-452, 455-462.
CompleteTaskLocksNested ==
    << <<"t", "Lock">>, <<"m", "RLock">>, <<"m", "RUnlock">>, <<"t", "Unlock">>,
       <<"t", "Lock">>, <<"t", "Unlock">> >>
CompleteTaskLocks ==
    << <<"m", "RLock">>, <<"m", "RUnlock">>, <<"t", "Lock">>, <<"t", "Unlock">>,
       <<"t", "Lock">>, <<"t", "Unlock">> >>
\* GetTaskInfo: 479-481, 487-488.
GetTaskInfoLocks ==
    << <<"m", "RLock">>, <<"m", "RUnlock">>, <<"t", "RLock">>, <<"t", "RUnlock">> >>
\* one tick of cleanupExpiredTasks that removes the record: 95, 98-101,
\* 106-129, 132.
SweepLocks ==
    << <<"m", "Lock">>, <<"t", "RLock">>, <<"t", "RUnlock">>,
       <<"t", "Lock">>, <<"t", "Unlock">>, <<"m", "Unlock">> >>

LockThreads ==
    {"create", "resume", "forwarder", "loop", "update", "complete", "info", "sweep"}
LockOps(th) ==
    CASE th = "create"    -> ExecCreateLocks
      [] th = "resume"    -> ExecResumeLocks
      [] th = "forwarder" -> ForwarderLocks
      [] th = "loop"      -> LoopLocks
      [] th = "update"    -> UpdateProgressLocks
      [] th = "complete"  -> CompleteTaskLocks
      [] th = "info"      -> GetTaskInfoLocks
      [] th = "sweep"     -> SweepLocks

\* lkpc[th] = 0: the operation has not been called (the goroutine not
\* started); otherwise the index of its next lock operation.
LkCalled == {th \in LockThreads : lkpc[th] > 0}
LkDone(th) == lkpc[th] > Len(LockOps(th))
LkAt(th) == lkpc[th] > 0 /\ ~LkDone(th)
\* the mutex and the operation th is at
LkMu(th) == LockOps(th)[lkpc[th]][1]
LkOp(th) == LockOps(th)[lkpc[th]][2]
\* th has acquired mu by acq and not yet released it
LkHolds(th, mu, acq) ==
    \E i \in 1..(lkpc[th] - 1) :
        /\ LockOps(th)[i] = <<mu, acq>>
        /\ \A j \in (i + 1)..(lkpc[th] - 1) : LockOps(th)[j][1] # mu
LkWriters(mu) == {th \in LockThreads : LkHolds(th, mu, "Lock")}
LkReaders(mu) == {th \in LockThreads : LkHolds(th, mu, "RLock")}
LkWaiting(mu) == {th \in lkwait : LkMu(th) = mu}
dataVars == <<recVars, sessVars, fwdVars, loopVars, runVars, ctVars, obsVars>>

\* The operation is called, the goroutine started: at most MaxLockThreads of
\* them in one run.
LkCall(th) ==
    /\ lkpc[th] = 0 /\ Cardinality(LkCalled) < MaxLockThreads
    /\ lkpc' = [lkpc EXCEPT ![th] = 1]
    /\ UNCHANGED <<lkwait, dataVars>>

\* sync.RWMutex.RLock: granted unless a writer holds the mutex or is blocked
\* in Lock() (a blocked Lock call keeps new readers out).
LkRLock(th) ==
    /\ LkAt(th) /\ LkOp(th) = "RLock"
    /\ LkWriters(LkMu(th)) = {} /\ LkWaiting(LkMu(th)) = {}
    /\ lkpc' = [lkpc EXCEPT ![th] = @ + 1]
    /\ UNCHANGED <<lkwait, dataVars>>

\* sync.RWMutex.Lock is called: from now on no new reader gets the mutex.
LkLockCall(th) ==
    /\ LkAt(th) /\ LkOp(th) = "Lock" /\ th \notin lkwait
    /\ lkwait' = lkwait \cup {th}
    /\ UNCHANGED <<lkpc, dataVars>>

\* The Lock call returns: nobody holds the mutex.
LkLockReturn(th) ==
    /\ th \in lkwait
    /\ LkWriters(LkMu(th)) = {} /\ LkReaders(LkMu(th)) = {}
    /\ lkpc' = [lkpc EXCEPT ![th] = @ + 1]
    /\ lkwait' = lkwait \ {th}
    /\ UNCHANGED dataVars

\* RUnlock and Unlock never block.
LkRelease(th) ==
    /\ LkAt(th) /\ LkOp(th) \in {"RUnlock", "Unlock"}
    /\ lkpc' = [lkpc EXCEPT ![th] = @ + 1]
    /\ UNCHANGED <<lkwait, dataVars>>

\* ---------------------------------------------------------------- Init
Init ==
    /\ inReg = FALSE /\ status = "none" /\ progress = 0 /\ cached = <<>>
    /\ dc = <<>> /\ dcClosed = FALSE /\ dcNil = FALSE /\ subs = NoSubs
    /\ listenerStarted = FALSE /\ expired = FALSE
    /\ epc = [s \in Sessions |-> "idle"]
    /\ res = [s \in Sessions |-> "none"]
    /\ sid = [s \in Sessions |-> "a"]
    /\ ctxDone = [s \in Sessions |-> FALSE]
    /\ subBuf = [s \in Sessions |-> <<>>]
    /\ subClosed = [s \in Sessions |-> FALSE]
    /\ outBuf = [s \in Sessions |-> <<>>]
    /\ outClosed = [s \in Sessions |-> FALSE]
    /\ delivered = [s \in Sessions |-> <<>>]
    /\ fpc = [s \in Sessions |-> "off"]
    /\ fcache = [s \in Sessions |-> <<>>]
    /\ fhold = [s \in Sessions |-> 0]
    /\ lpc = "off" /\ ldata = 0 /\ lsnap = {}
    /\ rpc = "off" /\ nextP = 1 /\ rres = "none" /\ asyncDone = FALSE
    /\ cpc = [c \in Callers |-> "idle"]
    /\ cst = [c \in Callers |-> "none"]
    /\ csnap = [c \in Callers |-> {}]
    /\ runnerStarts = 0 /\ newTasks = 0
    /\ obs = [s \in Sessions |-> [status |-> "none", expired |-> FALSE]]
    /\ expAtCall = [s \in Sessions |-> FALSE]
    /\ backlog = [s \in Sessions |-> <<>>]
    /\ upResult = [p \in Payloads |-> "none"] /\ everFull = FALSE /\ dblClose = "none"
    /\ closedBy = {}
    /\ info = [Status |-> "none", Progress |-> 0,
               DataChannel |-> "nil", Subscribers |-> NoSubs, CachedData |-> <<>>]
    /\ lkpc = [th \in LockThreads |-> 0] /\ lkwait = {}

\* ---------------------------------------------------------------- Next
\* The record's own goroutines and the caller reading its outputChan.
Lifecycle ==
    \/ \E s \in Sessions : ExecCreate(s)
    \/ \E s \in Sessions : ConsumerRead(s)
    \/ \E s \in Sessions : FwdCopy(s)
    \/ \E s \in Sessions : FwdRelay(s)
    \/ \E s \in Sessions : FwdRecv(s)
    \/ \E s \in Sessions : FwdSend(s)
    \/ \E s \in Sessions : FwdExit(s)
    \/ LoopRecv
    \/ LoopReturn
    \/ LoopSnap
    \/ LoopSend
    \/ LoopAppend
    \/ UpLookup
    \/ UpCheck
    \/ UpSet
    \/ UpSendOk
    \/ \E r \in {"nil", "err"} : WorkReturn(r)
    \/ RunnerDone
    \/ \E c \in Callers : CtLookup(c)
    \/ \E c \in Callers : CtMark(c)
    \/ \E c \in Callers : CtSnap(c)
    \/ \E c \in Callers : CtClose(c)

\* A second ExecuteWithSSE call with the record's resume key.
Resume ==
    \/ \E s \in Sessions, id \in IDs : ExecLookup(s, id)
    \/ \E s \in Sessions : ExecCheck(s)
    \/ \E s \in Sessions : ExecRegister(s)
    \/ \E s \in Sessions : FwdReplay(s)

\* One consumer from creation on; the work function may panic or time out,
\* the creating caller may cancel its ctx, and an outside caller may call
\* CompleteTask.
Next ==
    \/ Lifecycle
    \/ \E s \in {Creator} : CancelCtx(s)
    \/ \E st \in ExtStatuses : CtExtCall(st)
    \/ \E D \in SUBSET Sessions : LoopSendPanic(D)
    \/ UpSendDrop
    \/ UpSendCtxErr
    \/ UpSendPanic
    \/ WorkPanic
    \/ AsyncTimeout

Spec == Init /\ [][Next]_vars

\* The creating caller and a resuming one, each of which may cancel its ctx.
NextResume ==
    \/ Lifecycle
    \/ Resume
    \/ \E s \in Sessions, i \in 1..(SubCap + 1) : ExecRegisterCtxErr(s, i)
    \/ \E s \in Sessions : CancelCtx(s)
    \/ \E D \in SUBSET Sessions : LoopSendPanic(D)
    \/ UpSendCtxErr

SpecResume == Init /\ [][NextResume]_vars

\* The record expires and the cleanup ticker fires, beside an outside
\* CompleteTask and a creating caller that may cancel its ctx.
NextSweep ==
    \/ Lifecycle
    \/ \E s \in {Creator} : CancelCtx(s)
    \/ \E st \in ExtStatuses : CtExtCall(st)
    \/ \E D \in SUBSET Sessions : LoopSendPanic(D)
    \/ UpSendDrop
    \/ UpSendCtxErr
    \/ UpSendPanic
    \/ Sweep
    \/ Tick

SpecSweep == Init /\ [][NextSweep]_vars

\* The record expires and the cleanup ticker fires, beside a resuming call.
NextExpiry ==
    \/ Lifecycle
    \/ Resume
    \/ \E D \in SUBSET Sessions : LoopSendPanic(D)
    \/ UpSendPanic
    \/ Sweep
    \/ Tick

SpecExpiry == Init /\ [][NextExpiry]_vars

\* GetTaskInfo polled at any moment of the record's life, up to its removal
\* by the cleanup ticker, with a creating caller that may cancel its ctx.
NextInfo ==
    \/ Lifecycle
    \/ \E s \in {Creator} : CancelCtx(s)
    \/ Sweep
    \/ Tick
    \/ GetTaskInfoCall

SpecInfo == Init /\ [][NextInfo]_vars

\* SpecExpiry with the Go scheduler's fairness: a goroutine that can take a
\* step eventually takes one (an Execute call that has found the record, a
\* forwarder, the broadcast loop, the runner with its CompleteTask call, the
\* cleanup ticker), time passes, and every caller keeps reading its
\* outputChan.  Whether and when ExecuteWithSSE is called is left open.
FairExpiry ==
    /\ \A s \in Sessions : WF_vars(ExecCheck(s) \/ ExecRegister(s))
    /\ \A s \in Sessions : WF_vars(ConsumerRead(s))
    /\ \A s \in Sessions :
           WF_vars(FwdCopy(s) \/ FwdReplay(s) \/ FwdRelay(s) \/ FwdRecv(s)
                       \/ FwdSend(s) \/ FwdExit(s))
    /\ WF_vars(LoopRecv \/ LoopReturn \/ LoopSnap \/ LoopSend \/ LoopAppend
                   \/ \E D \in SUBSET Sessions : LoopSendPanic(D))
    /\ WF_vars(UpLookup \/ UpCheck \/ UpSet \/ UpSendOk \/ UpSendPanic
                   \/ (\E r \in {"nil", "err"} : WorkReturn(r)) \/ RunnerDone
                   \/ CtLookup("runner") \/ CtMark("runner")
                   \/ CtSnap("runner") \/ CtClose("runner"))
    /\ WF_vars(Sweep \/ Tick)

SpecExpiryFair == Init /\ [][NextExpiry]_vars /\ FairExpiry

\* The lock operations of one call of each operation and of each goroutine,
\* all on the same record, in every interleaving.
LkStep(th) == LkRLock(th) \/ LkLockCall(th) \/ LkLockReturn(th) \/ LkRelease(th)
NextLocks ==
    \/ \E th \in LockThreads : LkCall(th)
    \/ \E th \in LockThreads : LkStep(th)

SpecLocks == Init /\ [][NextLocks]_vars

\* ---------------------------------------------------------------- properties
\* What session s has read, followed by what is on its way to it, in the
\* order in which it will be read: outputChan, the forwarder's copy of
\* CachedData still to be replayed, the payload the forwarder holds, subChan.
Pipeline(s) ==
    delivered[s] \o outBuf[s] \o fcache[s]
        \o (IF fhold[s] = 0 THEN <<>> ELSE <<fhold[s]>>) \o subBuf[s]

\* The payloads, in submission order, whose UpdateProgress call returned nil
\* with the payload enqueued and the task still running.
RECURSIVE OkFrom(_)
OkFrom(p) ==
    IF p > MaxPayload THEN <<>>
    ELSE (IF upResult[p] = "nil" THEN <<p>> ELSE <<>>) \o OkFrom(p + 1)
OkPayloads == OkFrom(1)

\* C1 (resume ordering): a call that resumed the record and whose ctx is not
\* cancelled gets every payload that was in CachedData when it subscribed,
\* in order and ahead of everything else: they are what it has read and what
\* is on its way to it, from the front.
C1_ResumeOrdering ==
    \A s \in Resumers :
        (res[s] = "ok" /\ ~ctxDone[s]) => IsPrefix(backlog[s], Pipeline(s))

\* C2 (single delivery under live attachment): the creating caller never
\* cancelled, no channel buffer ever reached its capacity, and the caller has
\* read outputChan up to its close: what it read is exactly the payloads
\* whose UpdateProgress returned nil, in submission order.
C2_SingleDelivery ==
    (~ctxDone[Creator] /\ ~everFull /\ outClosed[Creator] /\ outBuf[Creator] = <<>>)
        => delivered[Creator] = OkPayloads

\* C3 (panicking work function): once the runner has ended on a panic of the
\* work function, the record, still in m.tasks, is no longer running.
C3_PanicMarksFailed ==
    (rpc = "done" /\ rres = "panic" /\ inReg) => GetTaskInfo.Status # "running"

\* C4 (isolation from caller cancellation): cancelling the ctx passed to
\* ExecuteWithSSE is not observable by the work function: no updateProgress
\* call of its returns the ctx error.
C4_CancelNotObservable ==
    \A p \in Payloads : upResult[p] # "ctx_err"

\* C5 (status is monotonic): once Status is completed, failed or cancelled,
\* no step changes it.
C5_StatusMonotonic ==
    [][(status \in Terminal) => (status' = status)]_vars

\* C6 (terminal idempotence): whatever the order in which two CompleteTask
\* calls, the cleanup tick and the forwarder's deferred cleanup reach their
\* close() calls, no panic of a close of a closed channel escapes its
\* closing function, whoever has gone through its closes has left
\* DataChannel and the subscriber channels it saw closed, and once every
\* closer is through, DataChannel and the caller's subChan are closed.
C6_TerminalIdempotence ==
    /\ dblClose # "dblClose"
    /\ \A c \in closedBy \cap Callers :
           dcClosed /\ \A s \in csnap[c] : subClosed[s]
    /\ "sweep" \in closedBy => (dcClosed /\ \A s \in Registered : subClosed[s])
    /\ (closedBy # {} /\ \A c \in Callers : cpc[c] \in {"idle", "done"})
           => (dcClosed /\ subClosed[Creator])

\* Both CompleteTask calls and the cleanup tick have gone through their
\* closes, the forwarder has run its cleanup, and a close of a closed
\* channel has been recovered on the way.
C6_Witness ==
    /\ closedBy = Callers \cup {"sweep"}
    /\ dblClose = "recovered"
    /\ fpc[Creator] = "done" /\ outClosed[Creator]

\* C7 (expiry hard cutoff): a call with the resume key of a record that was
\* past ExpiresAt when the call started returns ErrTaskExpired, subscribes
\* nothing and starts no forwarder and no work function.
C7_ExpiryHardCutoff ==
    \A s \in Resumers :
        (epc[s] = "done" /\ expAtCall[s])
            => (res[s] = "TaskExpired" /\ s \notin Registered
                    /\ fpc[s] = "off" /\ newTasks = 0)

\* C8 (resume of a record that is not running): the step of a resuming call
\* that reads a Status other than running on a record not past ExpiresAt
\* ends the call with ErrTaskNotRunning; it writes no field of the record,
\* subscribes nothing, makes no channel, starts no forwarder and does not
\* start the work function.
C8_ResumeNotRunning ==
    [][\A s \in Resumers :
          (epc[s] = "check" /\ epc'[s] # "check"
                /\ status \in Terminal /\ ~expired)
              => (/\ res'[s] = "TaskNotRunning" /\ epc'[s] = "done"
                  /\ recVars' = recVars
                  /\ s \notin Registered'
                  /\ fpc'[s] = "off" /\ subBuf'[s] = <<>>
                  /\ outBuf'[s] = <<>> /\ ~outClosed'[s]
                  /\ runnerStarts' = runnerStarts /\ newTasks' = newTasks)]_vars

\* A resuming call has read a terminal Status on a record not past
\* ExpiresAt and has returned ErrTaskNotRunning.
C8_Witness ==
    \E s \in Resumers :
        /\ res[s] = "TaskNotRunning" /\ epc[s] = "done"
        /\ obs[s].status \in Terminal /\ ~obs[s].expired

\* C9 (the work function runs once per record): asyncFunc is started at
\* most once for the record, exactly once as soon as the creating call has
\* returned, and a call that resumed the record has neither started the
\* function it was given nor created a record for it.
C9_WorkOnce ==
    /\ runnerStarts <= 1
    /\ epc[Creator] = "done" => runnerStarts = 1
    /\ \A s \in Resumers : res[s] = "ok" => (runnerStarts = 1 /\ newTasks = 0)

\* A call has resumed the record, its forwarder is running, and the work
\* function has already sent a payload.
C9_Witness ==
    \E s \in Resumers :
        /\ res[s] = "ok" /\ fpc[s] # "off"
        /\ \E p \in Payloads : upResult[p] = "nil"

\* C10 (final status): once the work function has returned and the runner's
\* CompleteTask has assigned Status, GetTaskInfo reports completed for a nil
\* error and failed for a non-nil one for as long as the record is in
\* m.tasks.
C10_FinalStatus ==
    (rres \in {"nil", "err"} /\ cpc["runner"] \in {"snap", "close", "done"} /\ inReg)
        => GetTaskInfo.Status = FinalStatus(rres)

\* C11 (UpdateProgress on a running task succeeds): a call that found the
\* record and read Status running has written its payload to Progress by the
\* time it reaches the select, and it returns nil, whether or not the
\* payload went into DataChannel.
C11_UpdateSucceeds ==
    /\ rpc = "up_send" => progress = nextP
    /\ \A p \in Payloads :
           upResult[p] \notin {"none", "TaskNotFound", "TaskNotRunning"}
               => upResult[p] \in {"nil", "nil_dropped", "nil_late"}

\* C12 (the failures of UpdateProgress): a call returns nil, ErrTaskNotFound
\* or ErrTaskNotRunning and nothing else, and the step on which it returns
\* one of the two errors writes neither Progress nor DataChannel.
C12_UpdateFailures ==
    [][\A p \in Payloads :
          upResult'[p] # upResult[p]
              => /\ upResult'[p] \in {"nil", "nil_dropped", "nil_late",
                                       "TaskNotFound", "TaskNotRunning"}
                 /\ upResult'[p] \in {"TaskNotFound", "TaskNotRunning"}
                        => (progress' = progress /\ dc' = dc /\ progress # p)]_vars

\* C13 (records are created by calls without a resume key only): no call
\* that carried a resume key has created a record or returned a channel for
\* a record of its own.
C13_NoCreateOnResume ==
    newTasks = 0 /\ \A s \in Resumers : res[s] # "ok_new"

\* C14 (fan-out to two consumers): a payload whose subscriber snapshot holds
\* both sessions, subscribed under different ids, goes into the subChan of
\* each of them that is open and not full when the loop fans it out.
C14_FanOut ==
    [][(lpc = "send" /\ lpc' # "send" /\ lsnap = Sessions)
          => \A s \in Sessions :
                 (~subClosed[s] /\ Len(subBuf[s]) < SubCap)
                     => subBuf'[s] = Append(subBuf[s], ldata)]_vars

C16_RemovedBySweepOnly ==
    [][/\ (inReg /\ ~inReg')
            => /\ "sweep" \in closedBy' /\ "sweep" \notin closedBy
               /\ expired \/ status \in Terminal
               /\ dcClosed' /\ \A s \in Registered : subClosed'[s]
       /\ ("sweep" \in closedBy' /\ "sweep" \notin closedBy)
            => (inReg /\ ~inReg' /\ (expired \/ status \in Terminal))]_vars

\* The record was removed by the sweep: once a running record past its
\* ExpiresAt is gone, with CompleteTask never called on it.
C16_Witness ==
    /\ ~inReg /\ "sweep" \in closedBy
    /\ status = "running" /\ expired
    /\ dcClosed /\ subClosed[Creator]

\* C17 (buffer invariant): a payload is appended to CachedData only while
\* task.Subscribers is empty.
C17_AppendOnlyDetached ==
    [][Len(cached') > Len(cached) => Registered = {}]_vars

\* C18 (per-session ordering): what a session has read from its outputChan
\* is in the order of the UpdateProgress calls (payloads are numbered in
\* that order) and holds no payload twice.
C18_SessionOrder ==
    \A s \in Sessions :
        \A i, j \in DOMAIN delivered[s] :
            i < j => delivered[s][i] < delivered[s][j]

\* C19 (one broadcast loop, alive while the task runs): once the creating
\* call has returned, the loop it started is running for as long as the
\* record is in m.tasks with Status running and the work function has not
\* ended.
C19_LoopAlive ==
    (epc[Creator] = "done" /\ inReg /\ status = "running"
            /\ rpc \in {"work", "up_check", "up_set", "up_send"})
        => (listenerStarted /\ lpc \in {"recv", "snap", "send", "append"})

\* C20 (no send after the end): the step on which an UpdateProgress call
\* goes through its select, taken when Status is no longer running or
\* DataChannel is closed, puts nothing into DataChannel and does not run
\* into a send on the closed channel.
C20_NoSendAfterClose ==
    [][(rpc = "up_send" /\ rpc' # "up_send" /\ (status \in Terminal \/ dcClosed))
          => (dc' = dc /\ upResult'[nextP] # "panic")]_vars

\* C21 (the sweep forces a terminal status): a record the cleanup ticker
\* has removed does not have Status running.
C21_SweptNotRunning ==
    "sweep" \in closedBy => status # "running"

\* C22 (a slow consumer blocks nobody): the loop's fan-out and the select of
\* UpdateProgress can always take a step, whatever the fill of the channels;
\* and a fan-out gives the payload to every copied subscriber whose own
\* subChan has room, whether or not another one's is full.
C22_SlowConsumer ==
    /\ [](lpc = "send" => ENABLED (LoopSend \/ \E D \in SUBSET Sessions : LoopSendPanic(D)))
    /\ [](rpc = "up_send" => ENABLED (UpSendOk \/ UpSendDrop \/ UpSendCtxErr \/ UpSendPanic))
    /\ [][(lpc = "send" /\ lpc' = "recv")
            => \A s \in lsnap :
                   subBuf'[s] = IF Len(subBuf[s]) < SubCap
                                  THEN Append(subBuf[s], ldata)
                                  ELSE subBuf[s]]_vars

\* Two sessions are subscribed; one has not taken payload 1 out of its full
\* subChan and has missed payload 2, which the other one has read.
C22_Witness ==
    \E a, b \in Sessions :
        /\ a # b /\ {a, b} \subseteq Registered
        /\ ~subClosed[a] /\ Len(subBuf[a]) = SubCap
        /\ \E p \in Payloads :
               /\ p \in {delivered[b][i] : i \in DOMAIN delivered[b]}
               /\ p \notin {Pipeline(a)[i] : i \in DOMAIN Pipeline(a)}
               /\ \A q \in {subBuf[a][i] : i \in DOMAIN subBuf[a]} : q < p

\* C23 (detach cleanup): the step on which a forwarder ends closes its
\* outputChan, open until then, and leaves the session without an entry in
\* task.Subscribers; and a payload whose handling by the loop ends after a
\* session has detached, with no subscriber left and the task running, ends
\* up appended to CachedData.
C23_DetachCleanup ==
    [][/\ \A s \in Sessions :
              (fpc[s] # "done" /\ fpc'[s] = "done")
                  => (~outClosed[s] /\ outClosed'[s] /\ s \notin Registered')
       /\ (/\ lpc \in {"send", "append"} /\ lpc' \notin {"send", "append"}
           /\ Registered = {} /\ status = "running"
           /\ \E s \in Sessions : fpc[s] = "done")
              => cached' = Append(cached, ldata)]_vars

\* C24 (lock discipline): a critical section of task.mu, which is one step
\* writing Status, Progress, CachedData, Subscribers or listenerStarted,
\* sends to and receives from no channel: the contents of DataChannel, of
\* the subscriber channels and of the output channels are as before.
C24_LockDiscipline ==
    [][<<status, progress, cached, subs, listenerStarted>>'
            # <<status, progress, cached, subs, listenerStarted>>
          => (dc' = dc /\ subBuf' = subBuf /\ outBuf' = outBuf)]_vars

\* C25 (a cleanup removes its own entry only): the step on which a session's
\* forwarder ends leaves every other subscribed session subscribed.
C25_OwnEntryOnly ==
    [][\A s, t \in Sessions :
          (s # t /\ fpc[s] # "done" /\ fpc'[s] = "done" /\ t \in Registered)
              => t \in Registered']_vars

\* C26 (no send on a closed subscriber channel): the broadcast loop has not
\* been ended by the panic of a send on a closed subChan.
C26_NoSendOnClosed ==
    lpc # "panicked"

\* C27 (no subscriber on a terminal record): once no CompleteTask call is
\* under way and Status is terminal, task.Subscribers is empty.
C27_NoSubscriberOnTerminal ==
    (status \in Terminal /\ \A c \in Callers : cpc[c] \in {"idle", "done"})
        => Registered = {}

\* C28 (a failed call leaves the task as it was): the step on which a call
\* returns ErrTaskExpired, ErrTaskNotRunning or its ctx error leaves the
\* call without an entry in task.Subscribers and CachedData as it was.
C28_ErrorLeavesTask ==
    [][\A s \in Sessions :
          (res[s] = "none" /\ res'[s] \in {"TaskExpired", "TaskNotRunning", "ctx_err"})
              => (s \notin Registered' /\ cached' = cached)]_vars

\* C29 (deadlock freedom): as long as some goroutine has lock operations
\* left, some goroutine can perform its next one: no set of goroutines is
\* blocked on m.mu and task.mu for good.
C29_NoLockDeadlock ==
    (\E th \in LockThreads : LkAt(th)) => ENABLED (\E th \in LockThreads : LkStep(th))

\* The sweep holds m.mu and is blocked in task.mu.Lock() behind a reader of
\* task.mu, while a call is blocked in m.mu.RLock() behind the sweep.
C29_Witness ==
    /\ LkHolds("sweep", "m", "Lock") /\ "sweep" \in lkwait
    /\ LkReaders("t") # {}
    /\ \E th \in LockThreads : LkAt(th) /\ LkMu(th) = "m" /\ LkOp(th) = "RLock"

\* C30 (no goroutine outlives a finished task): with every caller reading
\* its outputChan and no ctx cancelled, once the runner has finished (the
\* work function returned and CompleteTask was called) the broadcast loop
\* and every session's forwarder are, from some moment on, terminated.
C30_GoroutinesEnd ==
    <>[](rpc = "done" =>
            /\ lpc \in {"off", "done", "panicked"}
            /\ \A s \in Sessions : fpc[s] \in {"off", "done"})

====
